---- MODULE Spec2Model ----
(***************************************************************************)
(* NaivePortfolio (src/core/portfolio.py): the position and holdings       *)
(* ledgers, the per-bar snapshot history, fill application and naive order *)
(* generation, as a state machine driven by bar, signal and fill events.   *)
(*                                                                         *)
(* Money is modelled with integers: the prices, quantities and commissions *)
(* drawn below are whole numbers, for which the float arithmetic of the    *)
(* source is exact.                                                        *)
(***************************************************************************)
EXTENDS Integers, Sequences, FiniteSets, TLC

\* ------------------------------------------------------------------ bounds
MaxEvents == 4     \* bar, signal and fill events handled in one run
MaxExitEvents == 6 \* the same, in the runs of the EXIT round trip

\* ------------------------------------------------------- inputs and domains
symbol_list == <<"X", "Y">>
Symbols == {symbol_list[i] : i \in 1..Len(symbol_list)}
UnknownSymbol == "Z"                       \* not in the instrument set
Directions == {"BUY", "SELL", "HOLD"}      \* "HOLD" is neither BUY nor SELL
SignalTypes == {"LONG", "SHORT", "EXIT", "FLAT"}   \* "FLAT" is unrecognized
Quantities == {5, 10}
\* The closes a bar may carry.
Closes == {[s \in Symbols |-> IF s = symbol_list[1] THEN 50 ELSE 55],
           [s \in Symbols |-> IF s = symbol_list[1] THEN 55 ELSE 50]}
\* What the execution handler reports with a fill: quantity, commission and
\* the identifier of the filled order.
Executions == {[quantity |-> 5, commission |-> 0, order_id |-> 1, profit |-> -3],
               [quantity |-> 10, commission |-> 1, order_id |-> 2, profit |-> 4]}

initial_capital == 100000
start_date == 0

None == [type |-> "None"]

VARIABLES
    bars,               \* the data handler: latest bar's datetime and closes
    events,             \* the outbound event queue (self.events)
    current_positions,  \* self.current_positions
    current_holdings,   \* self.current_holdings
    all_positions,      \* self.all_positions
    all_holdings,       \* self.all_holdings
    all_orders,         \* self.all_orders: order_id -> order
    all_fills,          \* self.all_fills: references to fill event objects
    heap,               \* the fill event objects (their __dict__), by identity
    err,                \* the exception that ended the run, or "none"
    report,             \* what output_summary_stats returned or raised
    budget,             \* history: the number of events this run may handle
    net_fills,          \* history: signed sum of the FILL quantities per instrument
    n_bars,             \* history: bar events handled
    n_fills,            \* history: FILL-typed events delivered
    n_signals,          \* history: SIGNAL-typed events delivered
    n_other,            \* history: events of another type delivered to a handler
    marks,              \* history: per bar event, the ledgers and closes then
    applied,            \* history: per FILL that changed the ledgers, the amounts
    sized,              \* history: per SIGNAL sized, the signal and the position
    last                \* history: the event handled by the latest step

vars == <<bars, events, current_positions, current_holdings, all_positions,
          all_holdings, all_orders, all_fills, heap, err, report, budget,
          net_fills, n_bars,
          n_fills, n_signals, n_other, marks, applied, sized, last>>

engine == <<current_positions, current_holdings, all_positions, all_holdings,
            all_orders, all_fills, heap>>

history == <<net_fills, n_bars, n_fills, n_signals, n_other, marks, applied, sized>>

n_events == n_bars + n_fills + n_signals + n_other

\* ------------------------------------------------------------ construction
construct_all_positions ==
    <<[datetime |-> start_date, pos |-> [s \in Symbols |-> 0]]>>

construct_all_holdings ==
    <<[datetime |-> start_date, val |-> [s \in Symbols |-> 0],
       cash |-> initial_capital, commission |-> 0, total |-> initial_capital]>>

construct_current_holdings ==
    [val |-> [s \in Symbols |-> 0], cash |-> initial_capital,
     commission |-> 0, total |-> initial_capital]

\* The state NaivePortfolio.__init__ leaves, for a run of at most b events.
Start(b) ==
    /\ budget = b
    /\ report = [status |-> "none"]
    /\ bars = [datetime |-> start_date, close |-> [s \in Symbols |-> 0]]
    /\ events = <<>>
    /\ all_positions = construct_all_positions
    /\ current_positions = [s \in Symbols |-> 0]
    /\ all_holdings = construct_all_holdings
    /\ current_holdings = construct_current_holdings
    /\ all_orders = <<>>
    /\ all_fills = <<>>
    /\ heap = <<>>
    /\ err = "none"
    /\ net_fills = [s \in Symbols |-> 0]
    /\ n_bars = 0
    /\ n_fills = 0
    /\ n_signals = 0
    /\ n_other = 0
    /\ marks = <<>>
    /\ applied = <<>>
    /\ sized = <<>>
    /\ last = [op |-> "init"]

Init == Start(MaxEvents)

\* ------------------------------------------------------- the market data
\* The data handler loads the next bar, a later timestamp and a close per
\* instrument, before it announces the bar with a market event.
\* get_latest_bar_datetime and get_latest_bar_value read the bar it loaded.
update_bars(b, c) == [datetime |-> b.datetime + 1, close |-> c]

get_latest_bar_datetime(b, s) == b.datetime

get_latest_bar_value(b, s) == b.close[s]

BarLoaded == bars.datetime > start_date

\* The run goes on: no exception has ended it and the closing report has
\* not been made.
Running == err = "none" /\ report.status = "none"

\* ------------------------------------------------------------- bar events
\* The position record without the loop that copies the ledger into it.
M_position_record(b, pos) ==
    [datetime |-> get_latest_bar_datetime(b, symbol_list[1]),
     pos |-> [s \in Symbols |-> 0]]

\* dp of update_timeindex: the position record of this bar.
position_record(b, pos) ==
    [datetime |-> get_latest_bar_datetime(b, symbol_list[1]),
     pos |-> [s \in Symbols |-> pos[s]]]

\* The marking loop with dh['total'] assigned where the source adds to it.
RECURSIVE M_mark_to_market(_, _, _, _)
M_mark_to_market(i, dh, b, pos) ==
    IF i > Len(symbol_list) THEN dh
    ELSE LET s == symbol_list[i]
             market_value == pos[s] * get_latest_bar_value(b, s)
         IN  M_mark_to_market(i + 1,
                 [dh EXCEPT !.val[s] = market_value, !.total = market_value],
                 b, pos)

\* The loop of update_timeindex over symbol_list, from instrument i on: dh[s]
\* is set to the market value and dh['total'] grows by it.
RECURSIVE mark_to_market(_, _, _, _)
mark_to_market(i, dh, b, pos) ==
    IF i > Len(symbol_list) THEN dh
    ELSE LET s == symbol_list[i]
             market_value == pos[s] * get_latest_bar_value(b, s)
         IN  mark_to_market(i + 1,
                 [dh EXCEPT !.val[s] = market_value,
                            !.total = dh.total + market_value],
                 b, pos)

\* The holdings record keyed by the start date instead of the bar's timestamp.
M_holdings_record(b, pos, h) ==
    mark_to_market(1,
        [datetime |-> start_date,
         val |-> [s \in Symbols |-> 0],
         cash |-> h.cash, commission |-> h.commission, total |-> h.cash],
        b, pos)

\* The holdings record that copies the instrument values of the live ledger
\* instead of marking the positions at the bar's close.
M_holdings_record_unmarked(b, pos, h) ==
    [datetime |-> get_latest_bar_datetime(b, symbol_list[1]),
     val |-> h.val,
     cash |-> h.cash, commission |-> h.commission,
     total |-> h.cash + h.val[symbol_list[1]] + h.val[symbol_list[2]]]

\* dh of update_timeindex: the holdings record of this bar.
holdings_record(b, pos, h) ==
    mark_to_market(1,
        [datetime |-> get_latest_bar_datetime(b, symbol_list[1]),
         val |-> [s \in Symbols |-> 0],
         cash |-> h.cash, commission |-> h.commission, total |-> h.cash],
        b, pos)

\* The bar event with the newest record of each sequence overwritten where
\* the source appends.
M_update_timeindex(c) ==
    LET b == update_bars(bars, c)
        n == Len(all_positions)
    IN  /\ Running
        /\ n_events < budget
        /\ bars' = b
        /\ all_positions' = [all_positions EXCEPT
                                ![n] = position_record(b, current_positions)]
        /\ all_holdings' = [all_holdings EXCEPT
                               ![n] = holdings_record(b, current_positions,
                                                      current_holdings)]
        /\ n_bars' = n_bars + 1
        /\ marks' = Append(marks, [net |-> net_fills, pos |-> current_positions,
                                  close |-> c, cash |-> current_holdings.cash,
                                  commission |-> current_holdings.commission])
        /\ last' = [op |-> "bar"]
        /\ UNCHANGED <<events, current_positions, current_holdings,
                       all_orders, all_fills, heap, err, report, budget,
                       net_fills, n_fills, n_signals, n_other, applied, sized>>

\* A bar event: the market event of the bar with closes c, which the data
\* handler has loaded, handled by update_timeindex.
update_timeindex(c) ==
    LET b == update_bars(bars, c)
    IN  /\ Running
        /\ n_events < budget
        /\ bars' = b
        /\ all_positions' = Append(all_positions,
                                   position_record(b, current_positions))
        /\ all_holdings' = Append(all_holdings,
                                  holdings_record(b, current_positions, current_holdings))
        /\ n_bars' = n_bars + 1
        /\ marks' = Append(marks, [net |-> net_fills, pos |-> current_positions,
                                  close |-> c, cash |-> current_holdings.cash,
                                  commission |-> current_holdings.commission])
        /\ last' = [op |-> "bar"]
        /\ UNCHANGED <<events, current_positions, current_holdings,
                       all_orders, all_fills, heap, err, report, budget,
                       net_fills, n_fills, n_signals, n_other, applied, sized>>

\* ------------------------------------------------------------ fill events
\* A fill event object as the execution handler builds it; its order is the
\* order event that was filled.
FillEvent(s, d, x) ==
    [type |-> "FILL", symbol |-> s, direction |-> d, quantity |-> x.quantity,
     commission |-> x.commission,
     order |-> [kind |-> "OrderEvent", order_id |-> x.order_id, symbol |-> s,
                direction |-> d, quantity |-> x.quantity, profit |-> x.profit]]

FillEvents ==
    {FillEvent(s, d, x) : s \in Symbols, d \in {"BUY", "SELL"}, x \in Executions}
    \cup {FillEvent(s, "HOLD", x) :
             s \in Symbols, x \in {y \in Executions : y.order_id = 1}}
    \cup {FillEvent(UnknownSymbol, "BUY", x) : x \in {y \in Executions : y.order_id = 1}}

\* An event of another type, handed to a handler that does not expect it.
\* It has every attribute of a fill, so that only its type tells it apart.
ForeignEvents ==
    {[FillEvent(symbol_list[1], "BUY", x) EXCEPT !.type = "ORDER"] :
        x \in {y \in Executions : y.order_id = 2}}

\* The local fill_dir of update_positions_from_fill and update_holdings_from_fill.
fill_dir(direction) ==
    LET d0 == 0
        d1 == IF direction = "BUY" THEN 1 ELSE d0
        d2 == IF direction = "SELL" THEN -1 ELSE d1
    IN  d2

\* The position update with the direction of the fill ignored.
M_update_positions_from_fill(pos, fill) ==
    [pos EXCEPT ![fill.symbol] = @ + fill.quantity]

\* The position update that overwrites the position with the fill's signed
\* quantity where the source adds to it.
M_update_positions_overwrite(pos, fill) ==
    [pos EXCEPT ![fill.symbol] = fill_dir(fill.direction) * fill.quantity]

update_positions_from_fill(pos, fill) ==
    [pos EXCEPT ![fill.symbol] = @ + fill_dir(fill.direction) * fill.quantity]

\* The holdings update with the commission left out of the cash paid.
M_update_holdings_no_commission(h, fill, b) ==
    LET fill_cost == get_latest_bar_value(b, fill.symbol)
        cost == fill_dir(fill.direction) * fill_cost * fill.quantity
    IN  [h EXCEPT !.val[fill.symbol] = @ + cost,
                  !.commission = @ + fill.commission,
                  !.cash = @ - cost,
                  !.total = @ - (cost + fill.commission)]

\* The holdings update that books the commission into the instrument's value.
M_update_holdings_value_with_commission(h, fill, b) ==
    LET fill_cost == get_latest_bar_value(b, fill.symbol)
        cost == fill_dir(fill.direction) * fill_cost * fill.quantity
    IN  [h EXCEPT !.val[fill.symbol] = @ + cost + fill.commission,
                  !.commission = @ + fill.commission,
                  !.cash = @ - (cost + fill.commission),
                  !.total = @ - (cost + fill.commission)]

\* The holdings update with the commission subtracted from the running sum.
M_update_holdings_rebate(h, fill, b) ==
    LET fill_cost == get_latest_bar_value(b, fill.symbol)
        cost == fill_dir(fill.direction) * fill_cost * fill.quantity
    IN  [h EXCEPT !.val[fill.symbol] = @ + cost,
                  !.commission = @ - fill.commission,
                  !.cash = @ - (cost + fill.commission),
                  !.total = @ - (cost + fill.commission)]

update_holdings_from_fill(h, fill, b) ==
    LET fill_cost == get_latest_bar_value(b, fill.symbol)
        cost == fill_dir(fill.direction) * fill_cost * fill.quantity
    IN  [h EXCEPT !.val[fill.symbol] = @ + cost,
                  !.commission = @ + fill.commission,
                  !.cash = @ - (cost + fill.commission),
                  !.total = @ - (cost + fill.commission)]

\* The registry that keeps the first order written under an identifier.
M_update_orders_from_fill(orders, fill) ==
    LET order == fill.order
    IN  [i \in DOMAIN orders \cup {order.order_id} |->
            IF i \in DOMAIN orders THEN orders[i] ELSE order]

\* self.all_orders[order.order_id] = order
update_orders_from_fill(orders, fill) ==
    LET order == fill.order
    IN  [i \in DOMAIN orders \cup {order.order_id} |->
            IF i = order.order_id THEN order ELSE orders[i]]

\* fill = vars(event); fill['order'] = event.order.order_id: the event object
\* itself now carries the bare identifier in place of the order.
flatten(event) ==
    [event EXCEPT !.order = [kind |-> "id", order_id |-> event.order.order_id]]

\* The signed quantity the claims attribute to a FILL event.
signed_quantity(fill) ==
    CASE fill.direction = "BUY" -> fill.quantity
      [] fill.direction = "SELL" -> 0 - fill.quantity
      [] OTHER -> 0

\* The guard without its test: any event is taken for a fill.
M_is_fill(event) == TRUE

\* if event.type == 'FILL'
is_fill(event) == event.type = "FILL"

\* update_fill(event).  ref = 0: a fresh event object; ref > 0: the event
\* object heap[ref], delivered again.
update_fill(event, ref) ==
    /\ Running
    /\ BarLoaded
    /\ last' = [op |-> "fill", ev |-> event]
    /\ UNCHANGED <<bars, events, all_positions, all_holdings, n_bars, n_signals,
                   marks, sized, report, budget>>
    /\ n_events < budget
    /\ IF is_fill(event)
       THEN /\ n_fills' = n_fills + 1
            /\ n_other' = n_other
            /\ IF event.symbol \notin Symbols
               THEN \* self.current_positions[fill.symbol]: KeyError
                    /\ err' = "KeyError"
                    /\ UNCHANGED <<current_positions, current_holdings,
                                   all_orders, all_fills, heap, net_fills, applied>>
               ELSE /\ current_positions' =
                           update_positions_from_fill(current_positions, event)
                    /\ current_holdings' =
                           update_holdings_from_fill(current_holdings, event, bars)
                    /\ net_fills' = [net_fills EXCEPT
                                        ![event.symbol] = @ + signed_quantity(event)]
                    /\ applied' = Append(applied,
                          [fill |-> event,
                           at |-> n_events + 1,
                           after |-> current_positions'[event.symbol],
                           close |-> bars.close[event.symbol],
                           value |-> current_holdings'.val[event.symbol]
                                        - current_holdings.val[event.symbol],
                           paid |-> current_holdings.cash - current_holdings'.cash,
                           total |-> current_holdings.total - current_holdings'.total,
                           commission |-> current_holdings'.commission
                                            - current_holdings.commission])
                    /\ IF event.order.kind = "OrderEvent"
                       THEN /\ all_orders' = update_orders_from_fill(all_orders, event)
                            /\ heap' = IF ref = 0
                                       THEN Append(heap, flatten(event))
                                       ELSE [heap EXCEPT ![ref] = flatten(event)]
                            /\ all_fills' = Append(all_fills,
                                                IF ref = 0 THEN Len(heap) + 1 ELSE ref)
                            /\ err' = err
                       ELSE \* order.order_id on a bare identifier: AttributeError
                            /\ err' = "AttributeError"
                            /\ UNCHANGED <<all_orders, all_fills, heap>>
       ELSE /\ n_other' = n_other + 1
            /\ UNCHANGED <<current_positions, current_holdings, all_orders,
                           all_fills, heap, err, net_fills, n_fills, applied>>

\* ---------------------------------------------------------- signal events
\* A signal event as the strategy builds it.  The quantity of an EXIT or of
\* an unrecognized signal is not read.
SignalEvent(s, k, q) ==
    [type |-> "SIGNAL", symbol |-> s, signal_type |-> k, quantity |-> q]

SignalEvents ==
    {SignalEvent(s, k, q) : s \in Symbols, k \in {"LONG", "SHORT"}, q \in Quantities}
    \cup {SignalEvent(s, "EXIT", 5) : s \in Symbols}
    \cup {SignalEvent(symbol_list[1], "FLAT", 5)}
    \cup {SignalEvent(UnknownSymbol, "LONG", 5)}

\* OrderEvent(signal, quantity, direction)
OrderEvent(signal, quantity, direction) ==
    [type |-> "ORDER", symbol |-> signal.symbol, quantity |-> quantity,
     direction |-> direction]

abs(n) == IF n < 0 THEN 0 - n ELSE n

\* The third condition without its test of the signal kind.
M_rule_exit_long(direction, cur_quantity) == cur_quantity > 0

\* The four conditions of generate_naive_order, in the order of the source.
rule_long(direction, cur_quantity) == direction = "LONG"

rule_short(direction, cur_quantity) == direction = "SHORT"

rule_exit_long(direction, cur_quantity) == direction = "EXIT" /\ cur_quantity > 0

rule_exit_short(direction, cur_quantity) == direction = "EXIT" /\ cur_quantity < 0

\* Order generation with an EXIT sized by the signal's quantity.
M_generate_naive_order(pos, signal) ==
    LET direction == signal.signal_type
        cur_quantity == pos[signal.symbol]
    IN  IF direction = "LONG" THEN OrderEvent(signal, signal.quantity, "BUY")
        ELSE IF direction = "SHORT" THEN OrderEvent(signal, signal.quantity, "SELL")
        ELSE IF direction = "EXIT" /\ cur_quantity > 0
             THEN OrderEvent(signal, signal.quantity, "SELL")
        ELSE IF direction = "EXIT" /\ cur_quantity < 0
             THEN OrderEvent(signal, signal.quantity, "BUY")
        ELSE None

\* Four independent if statements, each of which may overwrite order.
generate_naive_order(pos, signal) ==
    LET direction == signal.signal_type
        cur_quantity == pos[signal.symbol]
        o0 == None
        o1 == IF rule_long(direction, cur_quantity)
              THEN OrderEvent(signal, signal.quantity, "BUY") ELSE o0
        o2 == IF rule_short(direction, cur_quantity)
              THEN OrderEvent(signal, signal.quantity, "SELL") ELSE o1
        o3 == IF rule_exit_long(direction, cur_quantity)
              THEN OrderEvent(signal, abs(cur_quantity), "SELL") ELSE o2
        o4 == IF rule_exit_short(direction, cur_quantity)
              THEN OrderEvent(signal, abs(cur_quantity), "BUY") ELSE o3
    IN  o4

\* self.events.put(order_event)
put(queue, item) == Append(queue, item)

\* update_signal reading the position with a default of 0 for a symbol the
\* ledger does not hold, where the source subscripts the ledger.
M_update_signal(event) ==
    /\ Running
    /\ BarLoaded
    /\ last' = [op |-> "signal", ev |-> event]
    /\ UNCHANGED <<bars, engine, net_fills, n_bars, n_fills, marks, applied,
                   report, budget>>
    /\ n_events < budget
    /\ IF event.type = "SIGNAL"
       THEN LET pos == [s \in Symbols \cup {event.symbol} |->
                          IF s \in Symbols THEN current_positions[s] ELSE 0]
            IN  /\ n_signals' = n_signals + 1
                /\ n_other' = n_other
                /\ events' = put(events, generate_naive_order(pos, event))
                /\ sized' = Append(sized,
                      [signal |-> event, at |-> n_events + 1,
                       position |-> pos[event.symbol]])
                /\ err' = err
       ELSE /\ n_other' = n_other + 1
            /\ UNCHANGED <<events, err, n_signals, sized>>

update_signal(event) ==
    /\ Running
    /\ BarLoaded
    /\ last' = [op |-> "signal", ev |-> event]
    /\ UNCHANGED <<bars, engine, net_fills, n_bars, n_fills, marks, applied,
                   report, budget>>
    /\ n_events < budget
    /\ IF event.type = "SIGNAL"
       THEN /\ n_signals' = n_signals + 1
            /\ n_other' = n_other
            /\ IF event.symbol \notin Symbols
               THEN \* self.current_positions[signal.symbol]: KeyError
                    /\ err' = "KeyError"
                    /\ UNCHANGED <<events, sized>>
               ELSE /\ events' = put(events,
                                     generate_naive_order(current_positions, event))
                    /\ sized' = Append(sized,
                          [signal |-> event,
                           at |-> n_events + 1,
                           position |-> current_positions[event.symbol]])
                    /\ err' = err
       ELSE /\ n_other' = n_other + 1
            /\ UNCHANGED <<events, err, n_signals, sized>>

\* ------------------------------------------------------------ the machine
Next ==
    \/ \E c \in Closes : update_timeindex(c)
    \/ \E event \in FillEvents \cup ForeignEvents : update_fill(event, 0)
    \/ \E ref \in DOMAIN heap : update_fill(heap[ref], ref)
    \/ \E event \in SignalEvents \cup ForeignEvents : update_signal(event)

Spec == Init /\ [][Next]_vars

\* -------------------------------------------------------------- reporting
\* create_order_history_dataframe: a frame with one row per order of the
\* registry and the orders' attributes as columns; a frame built from an
\* empty list has no columns at all.
create_order_history_dataframe(orders) ==
    LET rows == {orders[i] : i \in DOMAIN orders}
    IN  [rows |-> rows,
         columns |-> IF rows = {} THEN {}
                     ELSE {"order_id", "symbol", "direction", "quantity", "profit"}]

RECURSIVE sum_profit(_)
sum_profit(rows) ==
    IF rows = {} THEN 0
    ELSE LET o == CHOOSE x \in rows : TRUE IN o.profit + sum_profit(rows \ {o})

\* Lines 307-314 of output_summary_stats: the statistics of the order
\* history, or the exception they end in.  The win rate is kept in
\* thousandths, which round(x, 3) keeps exactly.
order_stats(order_history) ==
    IF "profit" \notin order_history.columns
    THEN \* self.order_history['profit']: KeyError
         [status |-> "KeyError"]
    ELSE LET winners == {o \in order_history.rows : o.profit > 0}
             losers == {o \in order_history.rows : o.profit < 0}
             trade_no == Cardinality(order_history.rows)
         IN  IF trade_no = 0
             THEN \* len(...)/trade_no: ZeroDivisionError
                  [status |-> "ZeroDivisionError"]
             ELSE [status |-> "ok",
                   profit |-> sum_profit(order_history.rows),
                   total_profit |-> sum_profit(winners),
                   total_loss |-> sum_profit(losers),
                   trade_no |-> trade_no,
                   winrate |-> [defined |-> TRUE,
                                permille |-> (Cardinality(winners) * 1000)
                                                \div trade_no]]

\* The closing report of a run: create_order_history_dataframe and then
\* output_summary_stats, whose equity-curve part does not read the registry.
output_summary_stats ==
    /\ Running
    /\ report' = order_stats(create_order_history_dataframe(all_orders))
    /\ err' = IF report'.status = "ok" THEN err ELSE report'.status
    /\ last' = [op |-> "report"]
    /\ UNCHANGED <<bars, events, engine, history, budget>>

NextReport ==
    \/ Next
    \/ output_summary_stats

SpecReport == Init /\ [][NextReport]_vars

\* ------------------------------------------------- the EXIT round trip
\* Longer runs over fewer inputs: one bar, fills of both directions of the
\* first instrument and one fill of the second, an EXIT and a LONG signal.
ExitFillEvents ==
    {FillEvent(symbol_list[1], d, x) :
        d \in {"BUY", "SELL"}, x \in {y \in Executions : y.order_id = 1}}
    \cup {FillEvent(symbol_list[1], "BUY", x) : x \in {y \in Executions : y.order_id = 2}}
    \cup {FillEvent(symbol_list[2], "SELL", x) : x \in {y \in Executions : y.order_id = 1}}

ExitSignalEvents ==
    {SignalEvent(symbol_list[1], "EXIT", 5), SignalEvent(symbol_list[1], "LONG", 5)}

InitExit == Start(MaxExitEvents)

NextExit ==
    \/ \E c \in {d \in Closes : d[symbol_list[1]] = 50} : update_timeindex(c)
    \/ \E event \in ExitFillEvents : update_fill(event, 0)
    \/ \E event \in ExitSignalEvents : update_signal(event)

SpecExit == InitExit /\ [][NextExit]_vars

\* ------------------------------------------------------ event objects
\* The holder of a fill event object that was applied (the execution handler
\* or the caller of update_fills) assigns another quantity to it.  The
\* object is the one all_fills refers to: fill = vars(event) is the event's
\* own attribute dictionary and not a copy of it.
touch_event(ref, q) ==
    /\ Running
    /\ heap[ref].quantity # q
    /\ heap' = [heap EXCEPT ![ref].quantity = q]
    /\ last' = [op |-> "touch", ref |-> ref]
    /\ UNCHANGED <<bars, events, current_positions, current_holdings,
                   all_positions, all_holdings, all_orders, all_fills, err,
                   report, budget, history>>

NextAlias ==
    \/ Next
    \/ \E ref \in DOMAIN heap, q \in Quantities : touch_event(ref, q)

SpecAlias == Init /\ [][NextAlias]_vars

\* ----------------------------------------------------------------- claims
RECURSIVE SumOver(_, _)
SumOver(f, S) ==
    IF S = {} THEN 0
    ELSE LET s == CHOOSE x \in S : TRUE IN f[s] + SumOver(f, S \ {s})

Sign(direction) == IF direction = "BUY" THEN 1 ELSE -1

IsTrade(fill) == fill.direction \in {"BUY", "SELL"}

Orders(queue) == SelectSeq(queue, LAMBDA e : e.type = "ORDER")

\* C1: after any sequence of bar, signal and fill events, the position of
\* every instrument equals the sum of the signed quantities (BUY +, SELL -)
\* of the FILL events applied to it since construction.
C1_PositionIsNetFills ==
    \A s \in Symbols : current_positions[s] = net_fills[s]

\* A BUY and then a SELL of the same quantity were applied to one instrument,
\* which is flat again.
C1_Witness ==
    /\ Len(applied) = 2
    /\ applied[1].fill.direction = "BUY"
    /\ applied[2].fill.direction = "SELL"
    /\ applied[1].fill.symbol = applied[2].fill.symbol
    /\ applied[1].fill.quantity = applied[2].fill.quantity
    /\ current_positions[applied[1].fill.symbol] = 0

\* C2: every holdings record of the history, the seed record included, has
\* total = cash + the sum of its per-instrument values.
C2_TotalIsCashPlusValues ==
    \A i \in 1..Len(all_holdings) :
        all_holdings[i].total =
            all_holdings[i].cash + SumOver(all_holdings[i].val, Symbols)

\* A record of a bar at which every instrument was held.
C2_Witness ==
    \E i \in 2..Len(all_holdings) :
        \A s \in Symbols : all_holdings[i].val[s] # 0

\* C3 as stated: the amounts a fill moves are fixed by the fill itself, so
\* two fills with the same fields move the same amounts.
C3_AmountsFixedByFill ==
    \A i, j \in 1..Len(applied) :
        applied[i].fill = applied[j].fill =>
            /\ applied[i].value = applied[j].value
            /\ applied[i].paid = applied[j].paid
            /\ applied[i].total = applied[j].total

\* C3 as amended: a BUY or SELL fill moves sign*quantity*close, where close
\* is the latest close of the fill's instrument when the fill is applied:
\* the instrument's value grows by it, and cash and total shrink by it plus
\* the fill's commission.
C3_FillAmounts ==
    \A i \in 1..Len(applied) :
        LET f == applied[i].fill
            notional == Sign(f.direction) * f.quantity * applied[i].close
        IN  IsTrade(f) =>
                /\ applied[i].value = notional
                /\ applied[i].paid = notional + f.commission
                /\ applied[i].total = notional + f.commission

\* Two fills with the same fields were applied at different closes, one of
\* them a SELL with a commission.
C3_Witness ==
    /\ Len(applied) = 2
    /\ applied[1].fill = applied[2].fill
    /\ applied[1].close # applied[2].close
    /\ applied[1].fill.direction = "SELL"
    /\ applied[1].fill.commission > 0

\* C4: the cumulative commission of the holdings ledger never decreases in
\* any step, and the commission of successive holdings records is
\* non-decreasing.
C4_CommissionMonotone ==
    [][/\ current_holdings'.commission >= current_holdings.commission
       /\ \A i \in 1..(Len(all_holdings') - 1) :
             all_holdings'[i].commission <= all_holdings'[i + 1].commission]_vars

\* Two bars with a commission charged between them.
C4_Witness ==
    /\ Len(all_holdings) >= 3
    /\ all_holdings[2].commission < all_holdings[3].commission

\* C5: an EXIT signal yields no order at position 0, a SELL of the position
\* when long and a BUY of the negated position when short.
C5_ExitOrder ==
    \A i \in 1..Len(sized) :
        LET sig == sized[i].signal
            p == sized[i].position
        IN  sig.signal_type = "EXIT" =>
                /\ p = 0 => events[i] = None
                /\ p > 0 => events[i] = [type |-> "ORDER", symbol |-> sig.symbol,
                                         quantity |-> p, direction |-> "SELL"]
                /\ p < 0 => events[i] = [type |-> "ORDER", symbol |-> sig.symbol,
                                         quantity |-> 0 - p, direction |-> "BUY"]

\* An EXIT sized against a short position built by two fills.
C5_Witness ==
    \E i \in 1..Len(sized) :
        /\ sized[i].signal.signal_type = "EXIT"
        /\ sized[i].position = -15
        /\ events[i].type = "ORDER"
        /\ events[i].direction = "BUY"
        /\ events[i].quantity = 15

\* C6: a signal fires at most one sizing rule and yields at most one order;
\* LONG yields a BUY and SHORT a SELL of the signal's quantity whatever the
\* position; equal (position, signal) pairs yield equal results; and sizing
\* changes no ledger, registry or history.
C6_OneRulePerSignal ==
    [][(n_signals' = n_signals + 1 /\ Len(sized') = Len(sized) + 1) =>
        LET sig == sized'[Len(sized')].signal
            p == sized'[Len(sized')].position
            k == sig.signal_type
            fired == {r \in 1..4 :
                        \/ r = 1 /\ rule_long(k, p)
                        \/ r = 2 /\ rule_short(k, p)
                        \/ r = 3 /\ rule_exit_long(k, p)
                        \/ r = 4 /\ rule_exit_short(k, p)}
        IN  /\ Cardinality(fired) <= 1
            /\ p = current_positions[sig.symbol]
            /\ Len(Orders(events')) <= Len(Orders(events)) + 1
            /\ k = "LONG" =>
                  Orders(events') = Append(Orders(events),
                      [type |-> "ORDER", symbol |-> sig.symbol,
                       quantity |-> sig.quantity, direction |-> "BUY"])
            /\ k = "SHORT" =>
                  Orders(events') = Append(Orders(events),
                      [type |-> "ORDER", symbol |-> sig.symbol,
                       quantity |-> sig.quantity, direction |-> "SELL"])
            /\ \A i, j \in 1..Len(sized') :
                  (/\ sized'[i].signal = sized'[j].signal
                   /\ sized'[i].position = sized'[j].position)
                      => events'[i] = events'[j]
            /\ UNCHANGED <<current_positions, current_holdings, all_positions,
                           all_holdings, all_orders, all_fills, heap>>]_vars

\* A LONG signal sized while the instrument was held in a different quantity.
C6_Witness ==
    \E i \in 1..Len(sized) :
        /\ sized[i].signal.signal_type = "LONG"
        /\ sized[i].position > 0
        /\ sized[i].position # sized[i].signal.quantity
        /\ last.op = "signal"
        /\ i = Len(sized)

\* C7 as stated: every item update_signal puts on the channel is an order.
C7_OnlyOrdersOnChannel ==
    \A i \in 1..Len(events) : events[i].type = "ORDER"

\* C8: the records of a bar event hold the position ledger of that moment,
\* which is the net of the fills applied before it, and per instrument that
\* quantity times the close of that bar; no later fill shows in them.
C8_BarRecords ==
    /\ Len(all_positions) = Len(marks) + 1
    /\ Len(all_holdings) = Len(marks) + 1
    /\ \A i \in 1..Len(marks) :
          /\ all_positions[i + 1].pos = marks[i].pos
          /\ marks[i].pos = marks[i].net
          /\ \A s \in Symbols :
                all_holdings[i + 1].val[s] = marks[i].net[s] * marks[i].close[s]

\* A fill between two bars shows in the second bar's records only, and a
\* fill after the second bar in neither.
C8_Witness ==
    \E s \in Symbols :
        /\ Len(all_positions) = 3
        /\ all_positions[2].pos[s] = 0
        /\ all_positions[3].pos[s] # 0
        /\ all_holdings[3].val[s] # 0
        /\ current_positions[s] # all_positions[3].pos[s]

\* C9: the two record sequences have the same length, 1 + the number of bar
\* events handled, record i of each carries the same timestamp, and the seed
\* records carry the start timestamp.
C9_ParallelSequences ==
    /\ Len(all_positions) = 1 + n_bars
    /\ Len(all_holdings) = 1 + n_bars
    /\ all_positions[1].datetime = start_date
    /\ \A i \in 1..Len(all_positions) :
          all_positions[i].datetime = all_holdings[i].datetime

\* Three bar events were handled.
C9_Witness ==
    /\ n_bars = 3
    /\ all_holdings[4].datetime # all_holdings[3].datetime

\* C10: every step leaves the records already in the history unchanged; a
\* bar event adds exactly one record at the end of each sequence, and no
\* other event changes the sequences.
C10_AppendOnly ==
    [][/\ SubSeq(all_positions', 1, Len(all_positions)) = all_positions
       /\ SubSeq(all_holdings', 1, Len(all_holdings)) = all_holdings
       /\ IF n_bars' = n_bars + 1
          THEN /\ Len(all_positions') = Len(all_positions) + 1
               /\ Len(all_holdings') = Len(all_holdings) + 1
          ELSE UNCHANGED <<all_positions, all_holdings>>]_vars

\* A fill applied after a bar: the ledgers moved on, the bar's records did not.
C10_Witness ==
    /\ last.op = "fill"
    /\ Len(applied) >= 1
    /\ Len(all_positions) >= 2
    /\ current_positions # all_positions[Len(all_positions)].pos
    /\ current_holdings.cash # all_holdings[Len(all_holdings)].cash

\* C11: update_fill ignores an event whose type is not FILL, without error:
\* positions, holdings, order registry, fill log and snapshot history stay
\* as they were.
C11_ForeignEventIgnored ==
    [][(last'.op = "fill" /\ last'.ev.type # "FILL") =>
          /\ err' = "none"
          /\ UNCHANGED <<current_positions, current_holdings, all_orders,
                         all_fills, heap, all_positions, all_holdings>>]_vars

\* An event of another type was handed to update_fill after a fill had moved
\* the ledgers.
C11_Witness ==
    /\ last.op = "fill"
    /\ last.ev.type # "FILL"
    /\ Len(applied) >= 1
    /\ Len(all_fills) >= 1
    /\ err = "none"

\* C12: a fill or a signal for a symbol outside the instrument set ends in
\* an error and changes nothing: no ledger, registry, fill log, history or
\* queue item; and the ledgers always hold exactly the instrument set.
C12_UnknownSymbolRejected ==
    [][/\ DOMAIN current_positions' = Symbols
       /\ DOMAIN current_holdings'.val = Symbols
       /\ (/\ \/ (last'.op = "fill" /\ last'.ev.type = "FILL")
               \/ (last'.op = "signal" /\ last'.ev.type = "SIGNAL")
            /\ last'.ev.symbol \notin Symbols) =>
              /\ err' = "KeyError"
              /\ UNCHANGED <<current_positions, current_holdings, all_orders,
                             all_fills, heap, all_positions, all_holdings,
                             events>>]_vars

\* A fill for an unknown symbol was rejected after another fill had been
\* applied.
C12_Witness ==
    /\ err = "KeyError"
    /\ last.op = "fill"
    /\ last.ev.symbol = UnknownSymbol
    /\ Len(applied) = 1
    /\ Len(all_fills) = 1

\* C13 as stated: with an empty order registry output_summary_stats does
\* not fail, and reports 0 trades and an undefined win rate.
C13_EmptyRegistryReport ==
    (report.status # "none" /\ DOMAIN all_orders = {}) =>
        /\ report.status = "ok"
        /\ report.trade_no = 0
        /\ ~report.winrate.defined

\* The applied fills that carried their order (and not a bare identifier)
\* under the identifier id, by their place in the order of application.
Registered(id) ==
    {i \in DOMAIN applied : /\ applied[i].fill.order.kind = "OrderEvent"
                            /\ applied[i].fill.order.order_id = id}

Latest(S) == CHOOSE i \in S : \A j \in S : j <= i

C15_FillLogSnapshots ==
    /\ Len(all_fills) = Len(applied)
    /\ \A i \in DOMAIN all_fills :
          i \in DOMAIN applied => heap[all_fills[i]] = flatten(applied[i].fill)

\* Scenario A: the only fill applied so far is a BUY of 10 units of X with
\* commission 1, applied while the latest close of X was 50.
ScenarioA ==
    /\ Len(applied) = 1
    /\ applied[1].fill.symbol = "X"
    /\ applied[1].fill.direction = "BUY"
    /\ applied[1].fill.quantity = 10
    /\ applied[1].fill.commission = 1
    /\ applied[1].close = 50

\* C16: in Scenario A (initial capital 100000, the second instrument never
\* traded) the position of X is 10 and the cash 99499, and a bar event that
\* follows with close 55 for X appends a holdings record with value 550 for
\* X and total 100049.
C16_ScenarioA ==
    ScenarioA =>
        /\ initial_capital = 100000
        /\ current_positions["X"] = 10
        /\ current_holdings.cash = 99499
        /\ (last.op = "bar" /\ bars.close["X"] = 55) =>
              /\ all_holdings[Len(all_holdings)].val["X"] = 550
              /\ all_holdings[Len(all_holdings)].total = 100049

\* Scenario A was played: a bar with close 50, the fill, a bar with close 55.
C16_Witness ==
    /\ ScenarioA
    /\ last.op = "bar"
    /\ bars.close["X"] = 55
    /\ n_events = 3

\* C17 as stated: applying a FILL event is all-or-nothing, so every fill
\* that moved the position and holdings ledgers, a fill event object
\* delivered a second time included, has its record in the fill log and its
\* order in the registry.
C17_FillAllOrNothing ==
    \A i \in DOMAIN applied :
        /\ i \in DOMAIN all_fills
        /\ heap[all_fills[i]].symbol = applied[i].fill.symbol
        /\ applied[i].fill.order.order_id \in DOMAIN all_orders
        /\ applied[i].fill.order.kind = "OrderEvent"

\* C18 as stated: right after a bar event the live holdings ledger is
\* re-marked: the value of every instrument is its position times the latest
\* close, the total is the cash plus these values, and the ledger agrees
\* with the holdings record just appended.
C18_LedgerRemarked ==
    last.op = "bar" =>
        LET dh == all_holdings[Len(all_holdings)]
        IN  /\ \A s \in Symbols :
                  /\ current_holdings.val[s] = current_positions[s] * bars.close[s]
                  /\ current_holdings.val[s] = dh.val[s]
            /\ current_holdings.total =
                  current_holdings.cash + SumOver(current_holdings.val, Symbols)
            /\ current_holdings.total = dh.total

\* C19: in the live holdings ledger the cash, the cumulative commission and
\* the instrument values add up to the initial capital, and the total
\* equals the cash.
C19_LedgerConservation ==
    /\ current_holdings.cash + current_holdings.commission
          + SumOver(current_holdings.val, Symbols) = initial_capital
    /\ current_holdings.total = current_holdings.cash

\* Fills with a commission were applied, both instruments carry a value, a
\* sale was among the fills and a bar was marked since.
C19_Witness ==
    /\ current_holdings.commission > 0
    /\ \A s \in Symbols : current_holdings.val[s] # 0
    /\ \E i \in DOMAIN applied : applied[i].fill.direction = "SELL"
    /\ last.op = "bar"

\* The fills applied to instrument s after event number a and before event
\* number b, and the signals sized for s in the same span.
FillsBetween(s, a, b) ==
    {j \in DOMAIN applied :
        applied[j].fill.symbol = s /\ a < applied[j].at /\ applied[j].at < b}

SignalsBetween(s, a, b) ==
    {k \in DOMAIN sized :
        sized[k].signal.symbol = s /\ a < sized[k].at /\ sized[k].at < b}

\* Signal number i is an EXIT that found a position other than 0.
IsExit(i) == sized[i].signal.signal_type = "EXIT" /\ sized[i].position # 0

\* Fill number j fills the order that signal number i produced: same
\* instrument, direction and quantity, applied after the signal.
Fills(j, i) ==
    /\ applied[j].at > sized[i].at
    /\ applied[j].fill.symbol = sized[i].signal.symbol
    /\ applied[j].fill.direction = events[i].direction
    /\ applied[j].fill.quantity = events[i].quantity

\* C20: an EXIT signal handled at a position p # 0 produces an order, and if
\* that order is filled before any other fill or signal of the instrument,
\* the position is 0 afterwards and a further EXIT signal produces no
\* order; two EXIT signals with no fill between them both produce an order
\* for abs(p), and once both are filled the position is -p and not 0.
C20_ExitRoundTrip ==
    \A i \in DOMAIN sized :
        IsExit(i) =>
          LET s == sized[i].signal.symbol
              p == sized[i].position
          IN  /\ events[i].type = "ORDER"
              /\ events[i].quantity = abs(p)
              /\ \A j \in DOMAIN applied :
                    (/\ Fills(j, i)
                     /\ FillsBetween(s, sized[i].at, applied[j].at) = {}
                     /\ SignalsBetween(s, sized[i].at, applied[j].at) = {}) =>
                        /\ applied[j].after = 0
                        /\ \A k \in DOMAIN sized :
                              (/\ sized[k].signal = sized[i].signal
                               /\ sized[k].at > applied[j].at
                               /\ FillsBetween(s, applied[j].at, sized[k].at) = {}) =>
                                  events[k] = None
              /\ \A k \in DOMAIN sized :
                    (/\ k > i
                     /\ sized[k].signal = sized[i].signal
                     /\ FillsBetween(s, sized[i].at, sized[k].at) = {}) =>
                        /\ events[k] = events[i]
                        /\ \A j1, j2 \in DOMAIN applied :
                              (/\ Fills(j1, k)
                               /\ Fills(j2, k)
                               /\ applied[j1].at < applied[j2].at
                               /\ FillsBetween(s, sized[i].at, applied[j2].at) = {j1}) =>
                                  /\ applied[j2].after = 0 - p
                                  /\ applied[j2].after # 0

\* The round trip was made: an EXIT at a position other than 0, the fill of
\* its order next, and then a further EXIT that produced no order.
C20_Witness ==
    \E i, k \in DOMAIN sized, j \in DOMAIN applied :
        /\ IsExit(i)
        /\ Fills(j, i)
        /\ FillsBetween(sized[i].signal.symbol, sized[i].at, applied[j].at) = {}
        /\ SignalsBetween(sized[i].signal.symbol, sized[i].at, applied[j].at) = {}
        /\ applied[j].after = 0
        /\ sized[k].signal = sized[i].signal
        /\ sized[k].at > applied[j].at
        /\ events[k] = None

====
